---- MODULE Spec2Model ----
(***************************************************************************)
(* Model of nwb_conversion_tools/utils/spike_interface.py: the builders    *)
(* that add devices, electrode groups, electrodes, electrical series and   *)
(* epochs of a recording to an NWBFile container, check_module,            *)
(* set_dynamic_table_property, and write_recording, which runs the         *)
(* builders on a container read from or written to a file.                 *)
(*                                                                         *)
(* Python values are encoded as follows.                                   *)
(*   dict            a function whose DOMAIN is the set of its keys        *)
(*   None            the record None                                       *)
(*   list            a sequence                                            *)
(*   scalar in an electrode column: [int |-> i], [str |-> s], [nan |-> T] *)
(*   exception       the name of its class in the field res ("ok" when the *)
(*                   call completed)                                       *)
(* The value under metadata['Ecephys']['Device'] is [list |-> <<...>>]     *)
(* when it is a list of dicts and [dict |-> d] when it is a dict, since    *)
(* the code builds both.                                                   *)
(***************************************************************************)
EXTENDS Integers, Sequences, FiniteSets, TLC

VARIABLES nwbfile, metadata, recording, last, disk, run

vars == <<nwbfile, metadata, recording, last, disk, run>>

----------------------------------------------------------------------------
(* Bounds *)

MaxChannels == 2
MaxList == 2
MaxColumns == 1
MaxFrame == 2
MaxSeries == 2

----------------------------------------------------------------------------
(* Python helpers *)

None == [None |-> TRUE]

EmptyDict == [k \in {} |-> TRUE]

Has(d, k) == k \in DOMAIN d

Get(d, k, default) == IF k \in DOMAIN d THEN d[k] ELSE default

Put(d, k, v) == [x \in (DOMAIN d) \cup {k} |-> IF x = k THEN v ELSE d[x]]

Pop(d, k) == [x \in (DOMAIN d) \ {k} |-> d[x]]

Range(s) == {s[i] : i \in DOMAIN s}

Names(s) == {s[i].name : i \in DOMAIN s}

IntStr(i) == <<"0", "1", "2", "3", "4">>[i + 1]

PyStr(v) == IF Has(v, "int") THEN IntStr(v.int) ELSE IF Has(v, "str") THEN v.str ELSE "nan"

PyInt(i) == [int |-> i]

PyS(s) == [str |-> s]

NaN == [nan |-> TRUE]

RECURSIVE SortedSeq(_)
SortedSeq(S) ==
    IF S = {} THEN <<>>
    ELSE LET m == CHOOSE x \in S : \A y \in S : x <= y
         IN <<m>> \o SortedSeq(S \ {m})

list_get(li, idx, default) == IF idx + 1 \in DOMAIN li THEN li[idx + 1] ELSE default

----------------------------------------------------------------------------
(* The container *)

NoTable == [exists |-> FALSE, colnames |-> {}, rows |-> <<>>]

(* acquisition: the series in acquisition, in the order they were added;   *)
(* processing: a dict from the name of a module to its description and its *)
(* data interfaces, each holding its electrical series in order            *)
EmptyNwbfile ==
    [devices |-> <<>>, electrode_groups |-> <<>>, electrodes |-> NoTable, epochs |-> NoTable,
     acquisition |-> <<>>, processing |-> EmptyDict]

Ctx(nwb, md, res, warn) == [nwb |-> nwb, md |-> md, res |-> res, warn |-> warn]

(* disk: the file at save_path, absent or holding the container written to *)
(* it; run: the call of write_recording in progress, idle between calls    *)
NoFile == [exists |-> FALSE]

Idle == [pc |-> "idle"]

create_device(nwb, kwargs) ==
    [nwb EXCEPT !.devices = Append(@, [name |-> kwargs.name, description |-> kwargs.description])]

create_electrode_group(nwb, kwargs) ==
    [nwb EXCEPT !.electrode_groups =
        Append(@, [name |-> kwargs.name, description |-> kwargs.description,
                   location |-> kwargs.location, device |-> kwargs.device])]

----------------------------------------------------------------------------
(* add_devices *)

device_defaults == [name |-> "Device", description |-> "Ecephys probe."]

DeviceItems(v) ==
    IF Has(v, "dict")
    THEN IF DOMAIN v.dict = {} THEN <<>>
         ELSE <<[pystr |-> CHOOSE k \in DOMAIN v.dict : TRUE]>>
    ELSE v.list

device_kwargs_defaults_win(dev) == device_defaults @@ dev

device_kwargs(dev) == dev @@ device_defaults

RECURSIVE add_devices_loop(_, _, _)
add_devices_loop(nwb, items, i) ==
    IF i > Len(items) THEN [nwb |-> nwb, res |-> "ok"]
    ELSE LET dev == items[i] IN
         IF Has(dev, "pystr") THEN [nwb |-> nwb, res |-> "AttributeError"]
         ELSE IF Get(dev, "name", device_defaults.name) \notin Names(nwb.devices)
              THEN add_devices_loop(create_device(nwb, device_kwargs(dev)), items, i + 1)
              ELSE add_devices_loop(nwb, items, i + 1)

add_devices(nwb, md) ==
    IF md # None /\ ~Has(md, "Ecephys") THEN [nwb |-> nwb, res |-> "KeyError"]
    ELSE LET items == IF md = None \/ ~Has(md.Ecephys, "Device")
                      THEN <<device_defaults>>
                      ELSE DeviceItems(md.Ecephys.Device)
         IN add_devices_loop(nwb, items, 1)

----------------------------------------------------------------------------
(* The recording *)

get_channel_ids(rec) == rec.channel_ids

get_num_channels(rec) == Len(rec.channel_ids)

get_channel_property_names(rec, j) == DOMAIN rec.props[j]

get_channel_groups(rec) ==
    [j \in DOMAIN rec.channel_ids |-> IF Has(rec.props[j], "group") THEN rec.props[j].group.int ELSE 0]

unique_channel_groups(rec) == SortedSeq(Range(get_channel_groups(rec)))

----------------------------------------------------------------------------
(* add_electrode_groups *)

group_defaults(nwb, rec) ==
    LET u == unique_channel_groups(rec)
    IN [i \in DOMAIN u |->
          [name |-> IntStr(u[i]), description |-> "no description",
           location |-> "unknown", device |-> nwb.devices[1].name]]

new_device_metadata(device_name) ==
    [Ecephys |-> [Device |-> [dict |-> [name |-> device_name]]]]

group_exists_never(nwb, grp, defaults) == FALSE

group_exists(nwb, grp, defaults) ==
    Get(grp, "name", defaults[1].name) \in Names(nwb.electrode_groups)

RECURSIVE add_electrode_groups_loop(_, _, _, _, _)

(* lines 249-251: the group of entry i, linked to its device; dev is the   *)
(* outcome of lines 238-246                                                *)
link_electrode_group(dev, defaults, items, i, warn, device_name, missing) ==
    IF dev.res # "ok" THEN [nwb |-> dev.nwb, res |-> dev.res, warn |-> warn]
    ELSE IF device_name \notin Names(dev.nwb.devices)
         THEN [nwb |-> dev.nwb, res |-> "KeyError", warn |-> warn \/ missing]
         ELSE add_electrode_groups_loop(
                  create_electrode_group(dev.nwb,
                      [device |-> device_name] @@ items[i] @@ defaults[1]),
                  defaults, items, i + 1, warn \/ missing)

add_electrode_groups_loop(nwb, defaults, items, i, warn) ==
    IF i > Len(items) THEN [nwb |-> nwb, res |-> "ok", warn |-> warn]
    ELSE IF group_exists(nwb, items[i], defaults)
         THEN add_electrode_groups_loop(nwb, defaults, items, i + 1, warn)
         ELSE LET device_name == Get(items[i], "device", defaults[1].device)
                  missing == device_name \notin Names(nwb.devices)
              IN link_electrode_group(
                     IF missing THEN add_devices(nwb, new_device_metadata(device_name))
                     ELSE [nwb |-> nwb, res |-> "ok"],
                     defaults, items, i, warn, device_name, missing)

create_channel_groups_none(nwb, kwargs, u, i) == nwb

RECURSIVE create_channel_groups(_, _, _, _)
create_channel_groups(nwb, kwargs, u, i) ==
    IF i > Len(u) THEN nwb
    ELSE create_channel_groups(
             create_electrode_group(nwb, [name |-> IntStr(u[i])] @@ kwargs), kwargs, u, i + 1)

(* lines 253-265: the groups of the channels, when the container has none; *)
(* r is the outcome of the loop of lines 235-251                           *)
channel_groups_fallback(r, rec, out, defaults) ==
    IF r.res # "ok" THEN Ctx(r.nwb, out, r.res, r.warn)
    ELSE IF Len(r.nwb.electrode_groups) = 0
         THEN Ctx(create_channel_groups(r.nwb,
                      [device |-> r.nwb.devices[1].name] @@ defaults[1],
                      unique_channel_groups(rec), 1),
                  out, "ok", r.warn \/ Len(r.nwb.devices) > 1)
         ELSE Ctx(r.nwb, out, "ok", r.warn)

(* lines 213-265, on a container that has a device *)
add_electrode_groups_from(nwb, rec, md, defaults) ==
    LET md1 == IF md = None THEN EmptyDict ELSE md
        md2 == IF ~Has(md1, "Ecephys") THEN Put(md1, "Ecephys", EmptyDict) ELSE md1
        md3 == IF ~Has(md2.Ecephys, "ElectrodeGroup")
               THEN Put(md2, "Ecephys", Put(md2.Ecephys, "ElectrodeGroup", defaults))
               ELSE md2
    IN channel_groups_fallback(
           add_electrode_groups_loop(nwb, defaults, md3.Ecephys.ElectrodeGroup, 1, FALSE),
           rec, IF md = None THEN None ELSE md3, defaults)

with_default_device(nwb) == IF Len(nwb.devices) = 0 THEN add_devices(nwb, None).nwb ELSE nwb

add_electrode_groups_on(nwb, rec, md) ==
    add_electrode_groups_from(nwb, rec, md, group_defaults(nwb, rec))

add_electrode_groups(nwb, rec, md) == add_electrode_groups_on(with_default_device(nwb), rec, md)

----------------------------------------------------------------------------
(* add_electrodes *)

electrode_defaults == {"x", "y", "z", "imp", "location", "filtering", "group_name"}

NotElectrodeProperties == {"gain", "offset", "location", "name"}

property_names(rec) ==
    (UNION {get_channel_property_names(rec, j) : j \in DOMAIN rec.channel_ids})
        \ NotElectrodeProperties

RECURSIVE property_data(_, _, _, _)
property_data(rec, prop, j, data) ==
    IF j > get_num_channels(rec) THEN data
    ELSE IF prop \in get_channel_property_names(rec, j)
         THEN property_data(rec, prop, j + 1, Append(data, rec.props[j][prop]))
         ELSE IF Len(data) > 0 /\ Has(data[Len(data)], "str")
              THEN property_data(rec, prop, j + 1, Append(data, PyS("")))
              ELSE IF Len(data) > 0
                   THEN property_data(rec, prop, j + 1, Append(data, NaN))
                   ELSE property_data(rec, prop, j + 1, data)

column_name(prop) ==
    IF prop = "brain_area" THEN "location" ELSE IF prop = "group" THEN "group_name" ELSE prop

SetColumn(ec, name, desc) ==
    [names |-> IF name \in DOMAIN ec.cols THEN ec.names ELSE Append(ec.names, name),
     cols |-> Put(ec.cols, name, desc)]

RECURSIVE property_columns(_, _, _, _)
property_columns(rec, order, i, ec) ==
    IF i > Len(order) THEN ec
    ELSE property_columns(rec, order, i + 1,
             SetColumn(ec, column_name(order[i]),
                 [description |-> column_name(order[i]),
                  data |-> property_data(rec, order[i], 1, <<>>)]))

ElectrodesEntriesValid(items) ==
    /\ \A i \in DOMAIN items : DOMAIN items[i] = {"name", "description", "data"}
    /\ \A i \in DOMAIN items : items[i].name # "group"

(* lines 379-382: the column of entry x, with its description *)
described_column(ec, x) ==
    SetColumn(ec, x.name,
        Put(IF x.name \in DOMAIN ec.cols THEN ec.cols[x.name] ELSE [description |-> x.name],
            "description", x.description))

RECURSIVE metadata_columns(_, _, _, _)

metadata_column(rec, items, i, x, popped, ec) ==
    IF Len(x.data) # get_num_channels(rec)
    THEN [ec |-> ec, items |-> popped, res |-> "AssertionError"]
    ELSE metadata_columns(rec, popped, i + 1,
             SetColumn(ec, x.name, Put(ec.cols[x.name], "data", x.data)))

metadata_columns(rec, items, i, ec) ==
    IF i > Len(items) THEN [ec |-> ec, items |-> items, res |-> "ok"]
    ELSE metadata_column(rec, items, i, items[i], [items EXCEPT ![i] = Pop(items[i], "name")],
             described_column(ec, items[i]))

add_electrode_column(nwb, name) ==
    [nwb EXCEPT !.electrodes = [exists |-> TRUE, colnames |-> @.colnames \cup {name}, rows |-> @.rows]]

RECURSIVE add_electrode_columns(_, _, _)
add_electrode_columns(nwb, ec, i) ==
    IF i > Len(ec.names) THEN [nwb |-> nwb, res |-> "ok"]
    ELSE IF ec.names[i] \in electrode_defaults THEN add_electrode_columns(nwb, ec, i + 1)
         ELSE IF ec.names[i] \in nwb.electrodes.colnames
              THEN [nwb |-> nwb, res |-> "ValueError"]
              ELSE add_electrode_columns(add_electrode_column(nwb, ec.names[i]), ec, i + 1)

missing_group_metadata(group_name) ==
    [Ecephys |-> [ElectrodeGroup |->
        <<[name |-> group_name, description |-> "no description",
           location |-> "unknown", device |-> "Device"]>>]]

add_electrode(nwb, kwargs) ==
    [nwb EXCEPT !.electrodes = [exists |-> TRUE, colnames |-> @.colnames, rows |-> Append(@.rows, kwargs)]]

(* lines 411-435: the columns of one row; st = [nwb, kwargs, res, warn] *)
RECURSIVE row_columns(_, _, _, _, _)

(* lines 428-433: the group of the row; r is the outcome of lines 414-427 *)
row_group(rec, ec, j, i, st, group_name, missing, r) ==
    IF r.res # "ok"
    THEN [st EXCEPT !.nwb = r.nwb, !.res = r.res, !.warn = TRUE]
    ELSE row_columns(rec, ec, j, i + 1,
             [nwb |-> r.nwb,
              kwargs |-> Put(Put(st.kwargs, "group", group_name), "group_name", group_name),
              res |-> "ok", warn |-> st.warn \/ missing])

row_column(rec, ec, j, i, st, name, desc) ==
    IF name = "group_name"
    THEN LET group_name == PyStr(list_get(desc.data, j - 1, PyS("0")))
             missing == group_name \notin Names(st.nwb.electrode_groups)
         IN row_group(rec, ec, j, i, st, group_name, missing,
                IF missing
                THEN add_electrode_groups(st.nwb, rec, missing_group_metadata(group_name))
                ELSE Ctx(st.nwb, None, "ok", FALSE))
    ELSE IF Has(desc, "data")
         THEN IF j \notin DOMAIN desc.data
              THEN [st EXCEPT !.res = "IndexError"]
              ELSE row_columns(rec, ec, j, i + 1, [st EXCEPT !.kwargs = Put(@, name, desc.data[j])])
         ELSE row_columns(rec, ec, j, i + 1, st)

row_columns(rec, ec, j, i, st) ==
    IF i > Len(ec.names) \/ st.res # "ok" THEN st
    ELSE row_column(rec, ec, j, i, st, ec.names[i], ec.cols[ec.names[i]])

channel_group_known_always(nwb, group_id) == TRUE

channel_group_known(nwb, group_id) == group_id \in Names(nwb.electrode_groups)

NoGroupNameInMetadata(items) ==
    ~ \E i \in DOMAIN items : Get(items[i], "name", "") = "group_name"

RECURSIVE add_electrode_rows(_, _, _, _, _, _, _)

(* line 453: the row is added when it has a group and a value for every    *)
(* column of the table                                                     *)
add_row(rec, items, ec, nwb_elec_ids, j, nwb, warn, kwargs) ==
    IF ~Has(kwargs, "group") THEN [nwb |-> nwb, res |-> "TypeError", warn |-> warn]
    ELSE IF ~(nwb.electrodes.colnames \subseteq DOMAIN kwargs)
         THEN [nwb |-> nwb, res |-> "ValueError", warn |-> warn]
         ELSE add_electrode_rows(rec, items, ec, nwb_elec_ids, j + 1,
                  add_electrode(nwb, kwargs), warn)

(* lines 437-453; st is the outcome of lines 411-435 *)
link_row(rec, items, ec, nwb_elec_ids, j, st, group_id) ==
    IF st.res # "ok" THEN [nwb |-> st.nwb, res |-> st.res, warn |-> st.warn]
    ELSE IF NoGroupNameInMetadata(items)
         THEN IF channel_group_known(st.nwb, group_id)
              THEN add_row(rec, items, ec, nwb_elec_ids, j, st.nwb, st.warn,
                       Put(Put(st.kwargs, "group", group_id), "group_name", group_id))
              ELSE add_electrode_rows(rec, items, ec, nwb_elec_ids, j + 1, st.nwb, TRUE)
         ELSE add_row(rec, items, ec, nwb_elec_ids, j, st.nwb, st.warn, st.kwargs)

add_electrode_rows(rec, items, ec, nwb_elec_ids, j, nwb, warn) ==
    IF j > get_num_channels(rec) THEN [nwb |-> nwb, res |-> "ok", warn |-> warn]
    ELSE IF get_channel_ids(rec)[j] \in nwb_elec_ids
         THEN add_electrode_rows(rec, items, ec, nwb_elec_ids, j + 1, nwb, warn)
         ELSE link_row(rec, items, ec, nwb_elec_ids, j,
                  row_columns(rec, ec, j, 1,
                      [nwb |-> nwb,
                       kwargs |-> [id |-> get_channel_ids(rec)[j], group_name |-> "0"],
                       res |-> "ok", warn |-> warn]),
                  IntStr(get_channel_groups(rec)[j]))

(* lines 454-455; r is the outcome of lines 395-453 *)
electrodes_table_formed(out, r) ==
    IF r.res # "ok" THEN Ctx(r.nwb, out, r.res, r.warn)
    ELSE IF ~r.nwb.electrodes.exists THEN Ctx(r.nwb, out, "AssertionError", r.warn)
         ELSE Ctx(r.nwb, out, "ok", r.warn)

(* lines 395-455; c is the outcome of lines 391-393 *)
electrodes_from_columns(rec, out, warn, items, ec, nwb_elec_ids, c) ==
    IF c.res # "ok" THEN Ctx(c.nwb, out, c.res, warn)
    ELSE electrodes_table_formed(out,
             add_electrode_rows(rec, items, ec, nwb_elec_ids, 1, c.nwb, warn))

(* lines 387-455; m is the outcome of lines 353-385 *)
electrodes_from_metadata(rec, md, g, md3, m) ==
    LET md4 == Put(md3, "Ecephys", Put(md3.Ecephys, "Electrodes", m.items))
        out == IF md = None THEN None ELSE md4
    IN IF m.res # "ok" THEN Ctx(g.nwb, out, m.res, g.warn)
       ELSE electrodes_from_columns(rec, out, g.warn, m.items, m.ec,
                {g.nwb.electrodes.rows[k].id : k \in DOMAIN g.nwb.electrodes.rows},
                add_electrode_columns(g.nwb, m.ec, 1))

(* lines 333-455; g is the outcome of lines 313-314 *)
electrodes_with_groups(rec, md, order, g) ==
    LET md1 == IF g.md = None THEN [Ecephys |-> EmptyDict] ELSE g.md
        md2 == IF ~Has(md1, "Ecephys") THEN Put(md1, "Ecephys", EmptyDict) ELSE md1
        md3 == IF ~Has(md2.Ecephys, "Electrodes")
               THEN Put(md2, "Ecephys", Put(md2.Ecephys, "Electrodes", <<>>))
               ELSE md2
    IN IF g.res # "ok" THEN g
       ELSE IF ~ElectrodesEntriesValid(md3.Ecephys.Electrodes)
            THEN Ctx(g.nwb, IF md = None THEN None ELSE md3, "AssertionError", g.warn)
            ELSE electrodes_from_metadata(rec, md, g, md3,
                     metadata_columns(rec, md3.Ecephys.Electrodes, 1,
                         property_columns(rec, order, 1, [names |-> <<>>, cols |-> EmptyDict])))

add_electrodes(nwb, rec, md, order) ==
    electrodes_with_groups(rec, md, order,
        IF Len(nwb.electrode_groups) = 0
        THEN add_electrode_groups(nwb, rec, md)
        ELSE Ctx(nwb, md, "ok", FALSE))

----------------------------------------------------------------------------
(* add_epochs. A time is the fraction num / den of a second; the tags of   *)
(* a row are the list that add_epoch makes of a name without commas.       *)

frame_to_time(rec, frame) == [num |-> frame, den |-> rec.sampling_frequency]

add_epoch(nwb, start_time, stop_time, tags) ==
    [nwb EXCEPT !.epochs =
        [exists |-> TRUE, colnames |-> @.colnames,
         rows |-> Append(@.rows, [start_time |-> start_time, stop_time |-> stop_time,
                                  tags |-> <<tags>>])]]

tag_exists_never(nwb, epoch_name) == FALSE

tag_exists(nwb, epoch_name) ==
    \E k \in DOMAIN nwb.epochs.rows : nwb.epochs.rows[k].tags = <<epoch_name>>

tag_index(nwb, epoch_name) ==
    CHOOSE k \in DOMAIN nwb.epochs.rows :
        /\ nwb.epochs.rows[k].tags = <<epoch_name>>
        /\ \A h \in 1..(k - 1) : nwb.epochs.rows[h].tags # <<epoch_name>>

RECURSIVE add_epochs_loop(_, _, _)
add_epochs_loop(nwb, rec, i) ==
    IF i > Len(rec.epochs) THEN nwb
    ELSE LET epoch == rec.epochs[i] IN
         IF ~nwb.epochs.exists
         THEN add_epochs_loop(
                  add_epoch(nwb, frame_to_time(rec, epoch.start_frame),
                            frame_to_time(rec, epoch.end_frame - 1), epoch.name),
                  rec, i + 1)
         ELSE IF tag_exists(nwb, epoch.name)
              THEN LET ind == tag_index(nwb, epoch.name) IN
                   add_epochs_loop(
                       [nwb EXCEPT !.epochs.rows[ind].start_time =
                                       frame_to_time(rec, epoch.start_frame),
                                   !.epochs.rows[ind].stop_time =
                                       frame_to_time(rec, epoch.end_frame)],
                       rec, i + 1)
              ELSE add_epochs_loop(
                       add_epoch(nwb, frame_to_time(rec, epoch.start_frame),
                                 frame_to_time(rec, epoch.end_frame), epoch.name),
                       rec, i + 1)

add_epochs(nwb, rec) == add_epochs_loop(nwb, rec, 1)

----------------------------------------------------------------------------
(* check_module and add_electrical_series *)

create_processing_module(nwb, name, description) ==
    [nwb EXCEPT !.processing =
        Put(@, name, [description |-> description, data_interfaces |-> EmptyDict])]

(* description is None or a string [str |-> s] *)
check_module_recreates(nwb, name, description) ==
    create_processing_module(nwb, name, IF description = None THEN name ELSE description.str)

check_module(nwb, name, description) ==
    IF Has(nwb.processing, name) THEN nwb
    ELSE create_processing_module(nwb, name, IF description = None THEN name ELSE description.str)

EcephysDescription ==
    "Intermediate data from extracellular electrophysiology recordings, e.g., LFP."

WriteAsKinds == {"raw", "processed", "lfp"}

(* the data interface of the module ecephys that holds the series of a kind *)
InterfaceOf(write_as) == IF write_as = "processed" THEN "Processed" ELSE "LFP"

eseries_defaults(write_as) ==
    [name |-> IF write_as = "raw" THEN "ElectricalSeries_raw"
              ELSE IF write_as = "processed" THEN "ElectricalSeries_processed"
              ELSE "ElectricalSeries_lfp",
     description |-> IF write_as = "raw" THEN "Raw acquired data"
                     ELSE IF write_as = "processed" THEN "Processed data"
                     ELSE "Processed data - LFP",
     comments |-> "Generated from SpikeInterface::NwbRecordingExtractor"]

(* lines 519-546: the module and the data interface of a processed kind *)
add_data_interface(nwb, name) ==
    IF Has(nwb.processing["ecephys"].data_interfaces, name) THEN nwb
    ELSE [nwb EXCEPT !.processing["ecephys"].data_interfaces =
             Put(@, name, [electrical_series |-> <<>>])]

series_destination(nwb, write_as) ==
    IF write_as = "raw" THEN nwb
    ELSE add_data_interface(check_module(nwb, "ecephys", PyS(EcephysDescription)),
                            InterfaceOf(write_as))

(* the series held by the destination of a kind *)
written_series(nwb, write_as) ==
    IF write_as = "raw" THEN nwb.acquisition
    ELSE nwb.processing["ecephys"].data_interfaces[InterfaceOf(write_as)].electrical_series

(* gains and offsets are channel properties, 1 and 0 when not set *)
get_channel_gains(rec) ==
    [j \in DOMAIN rec.channel_ids |->
        IF Has(rec.props[j], "gain") THEN rec.props[j].gain.int ELSE 1]

get_channel_offsets(rec) ==
    [j \in DOMAIN rec.channel_ids |->
        IF Has(rec.props[j], "offset") THEN rec.props[j].offset.int ELSE 0]

(* lines 578-579: offset / gain is an integer for every channel *)
coercible(rec) ==
    \A j \in DOMAIN rec.channel_ids :
        get_channel_offsets(rec)[j] % get_channel_gains(rec)[j] = 0

unsigned_coercion(rec) ==
    [j \in DOMAIN rec.channel_ids |->
        get_channel_offsets(rec)[j] \div get_channel_gains(rec)[j]]

(* lines 565-566: the index in the table of the row of every channel *)
electrode_ids(nwb) == [k \in DOMAIN nwb.electrodes.rows |-> nwb.electrodes.rows[k].id]

index_of(ids, id) ==
    (CHOOSE k \in DOMAIN ids : ids[k] = id /\ \A h \in 1..(k - 1) : ids[h] # id) - 1

table_ids(nwb, rec) ==
    [j \in DOMAIN rec.channel_ids |-> index_of(electrode_ids(nwb), rec.channel_ids[j])]

conversion_kwargs_first_gain(rec, write_scaled) ==
    IF write_scaled THEN [conversion |-> 1, channel_conversion |-> None]
    ELSE [conversion |-> get_channel_gains(rec)[1], channel_conversion |-> None]

(* lines 590-597: conversion in units of 1e-6, and the channel conversion *)
conversion_kwargs(rec, write_scaled) ==
    IF write_scaled THEN [conversion |-> 1, channel_conversion |-> None]
    ELSE IF Cardinality(Range(get_channel_gains(rec))) = 1
         THEN [conversion |-> get_channel_gains(rec)[1], channel_conversion |-> None]
         ELSE [conversion |-> 1, channel_conversion |-> get_channel_gains(rec)]

ephys_data_any_offsets(rec, write_scaled) ==
    IF rec.memmap
    THEN [iterator |-> "memmap", return_scaled |-> write_scaled, added |-> None]
    ELSE [iterator |-> "generator", return_scaled |-> write_scaled,
          added |-> IF write_scaled THEN None ELSE unsigned_coercion(rec)]

(* lines 599-627: the iterator over the traces *)
ephys_data(rec, write_scaled) ==
    IF rec.memmap /\ \A j \in DOMAIN rec.channel_ids : get_channel_offsets(rec)[j] = 0
    THEN [iterator |-> "memmap", return_scaled |-> write_scaled, added |-> None]
    ELSE [iterator |-> "generator", return_scaled |-> write_scaled,
          added |-> IF write_scaled THEN None ELSE unsigned_coercion(rec)]

(* lines 630-641 *)
timing_kwargs(rec, use_times) ==
    IF use_times THEN [timestamps |-> "frame_to_time"]
    ELSE [starting_time |-> frame_to_time(rec, 0), rate |-> rec.sampling_frequency]

ElectricalSeries(nwb, rec, kwargs, use_times, write_scaled) ==
    timing_kwargs(rec, use_times) @@ [data |-> ephys_data(rec, write_scaled)]
        @@ conversion_kwargs(rec, write_scaled)
        @@ [electrodes |-> table_ids(nwb, rec)] @@ kwargs

add_series_replaces(nwb, write_as, es) ==
    IF write_as = "raw" THEN [nwb EXCEPT !.acquisition = <<es>>]
    ELSE [nwb EXCEPT !.processing["ecephys"].data_interfaces[InterfaceOf(write_as)]
                          .electrical_series = <<es>>]

(* lines 645-650 *)
add_series(nwb, write_as, es) ==
    IF write_as = "raw" THEN [nwb EXCEPT !.acquisition = Append(@, es)]
    ELSE [nwb EXCEPT !.processing["ecephys"].data_interfaces[InterfaceOf(write_as)]
                          .electrical_series = Append(@, es)]

name_written_never(nwb, write_as, name) == FALSE

(* lines 554-562 *)
name_written(nwb, write_as, name) == name \in Names(written_series(nwb, write_as))

(* lines 548-650, on the destination of the kind *)
series_in_destination(rec, md, warn, use_times, write_as, es_key, write_scaled, nwb) ==
    LET given == md # None /\ Has(md, "Ecephys") /\ es_key # None
        kwargs == IF given /\ Has(md.Ecephys, es_key.str)
                  THEN md.Ecephys[es_key.str] @@ eseries_defaults(write_as)
                  ELSE eseries_defaults(write_as)
    IN IF given /\ ~Has(md.Ecephys, es_key.str) THEN Ctx(nwb, md, "AssertionError", warn)
       ELSE IF name_written(nwb, write_as, kwargs.name) THEN Ctx(nwb, md, "AssertionError", warn)
       ELSE IF \E j \in DOMAIN rec.channel_ids :
                   rec.channel_ids[j] \notin Range(electrode_ids(nwb))
            THEN Ctx(nwb, md, "ValueError", warn)
       ELSE IF ~coercible(rec) THEN Ctx(nwb, md, "NotImplementedError", warn)
       ELSE Ctx(add_series(nwb, write_as,
                    ElectricalSeries(nwb, rec, kwargs, use_times, write_scaled)),
                md, "ok",
                warn \/ \E j \in DOMAIN rec.channel_ids : get_channel_offsets(rec)[j] # 0)

(* lines 510-650; e is the outcome of lines 507-508 *)
series_with_electrodes(rec, use_times, write_as, es_key, write_scaled, e) ==
    IF e.res # "ok" THEN e
    ELSE IF write_as \notin WriteAsKinds THEN Ctx(e.nwb, e.md, "AssertionError", e.warn)
    ELSE series_in_destination(rec, e.md, e.warn, use_times, write_as, es_key, write_scaled,
             series_destination(e.nwb, write_as))

add_electrical_series(nwb, rec, md, order, buffer_mb, use_times, write_as, es_key, write_scaled) ==
    IF ~(buffer_mb > 10) THEN Ctx(nwb, md, "AssertionError", FALSE)
    ELSE series_with_electrodes(rec, use_times, write_as, es_key, write_scaled,
             IF ~nwb.electrodes.exists \/ Len(nwb.electrodes.rows) = 0
             THEN add_electrodes(nwb, rec, md, order)
             ELSE Ctx(nwb, md, "ok", FALSE))

----------------------------------------------------------------------------
(* set_dynamic_table_property. A table is [exists, colnames, rows], every   *)
(* row a dict with its id and a cell for every column; row_ids is          *)
(* [list |-> <<...>>] when it is a list, and a scalar otherwise.           *)

(* line 30 *)
is_int_list(row_ids) ==
    Has(row_ids, "list") /\ \A i \in DOMAIN row_ids.list : Has(row_ids.list[i], "int")

table_column(table, name) == [k \in DOMAIN table.rows |-> table.rows[k][name]]

(* lines 42-43 and 46-47: zip(row_ids, values) stops at the shorter list *)
RECURSIVE set_cells(_, _, _, _, _)
set_cells(data, ids, row_ids, values, i) ==
    IF i > Len(row_ids) \/ i > Len(values) THEN data
    ELSE set_cells([data EXCEPT ![index_of(ids, row_ids[i]) + 1] = values[i]],
                   ids, row_ids, values, i + 1)

set_column_data(table, name, data) ==
    [table EXCEPT !.rows = [k \in DOMAIN @ |-> Put(@[k], name, data[k])]]

(* DynamicTable.add_column takes one entry per row *)
add_column(table, name, data) ==
    IF Len(data) # Len(table.rows) THEN [table |-> table, res |-> "ValueError"]
    ELSE [table |-> [exists |-> TRUE, colnames |-> table.colnames \cup {name},
                     rows |-> set_column_data(table, name, data).rows],
          res |-> "ok"]

(* lines 40-66; ids are the ids of the table and row_ids integers of them *)
set_property(table, ids, row_ids, name, values, index, default_value) ==
    IF ~index
    THEN IF name \in table.colnames
         THEN [table |-> set_column_data(table, name,
                             set_cells(table_column(table, name), ids, row_ids, values, 1)),
               res |-> "ok"]
         ELSE add_column(table, name,
                  set_cells([k \in DOMAIN ids |-> default_value], ids, row_ids, values, 1))
    ELSE IF name \in table.colnames
         THEN [table |-> table, res |-> "NotImplementedError"]
         ELSE add_column(table, name, values)

(* lines 32-38 *)
set_checked_property(table, ids, row_ids, property_name, values, index, default_value) ==
    IF \E i \in DOMAIN row_ids : row_ids[i] \notin Range(ids)
    THEN [table |-> table, res |-> "ValueError"]
    ELSE IF ~Has(property_name, "str") THEN [table |-> table, res |-> "TypeError"]
    ELSE IF Len(row_ids) # Len(values) /\ ~index THEN [table |-> table, res |-> "ValueError"]
    ELSE set_property(table, ids, row_ids, property_name.str, values, index, default_value)

set_dynamic_table_property(table, row_ids, property_name, values, index, default_value) ==
    IF ~is_int_list(row_ids) THEN [table |-> table, res |-> "TypeError"]
    ELSE set_checked_property(table, [k \in DOMAIN table.rows |-> table.rows[k].id],
             [i \in DOMAIN row_ids.list |-> row_ids.list[i].int],
             property_name, values, index, default_value)

----------------------------------------------------------------------------
(* get_nwb_metadata and the steps of write_recording *)

DefaultSession ==
    [session_description |-> "Auto-generated by NwbRecordingExtractor without description.",
     identifier |-> "uuid4", session_start_time |-> "1970-01-01"]

get_nwb_metadata_per_channel(rec) ==
    [NWBFile |-> DefaultSession,
     Ecephys |->
        [Device |-> [list |-> <<[name |-> "Device", description |-> "no description"]>>],
         ElectrodeGroup |->
            [i \in DOMAIN rec.channel_ids |->
                [name |-> IntStr(get_channel_groups(rec)[i]), description |-> "no description",
                 location |-> "unknown", device |-> "Device"]]]]

get_nwb_metadata(rec) ==
    [NWBFile |-> DefaultSession,
     Ecephys |->
        [Device |-> [list |-> <<[name |-> "Device", description |-> "no description"]>>],
         ElectrodeGroup |->
            [i \in DOMAIN unique_channel_groups(rec) |->
                [name |-> IntStr(unique_channel_groups(rec)[i]),
                 description |-> "no description",
                 location |-> "unknown", device |-> "Device"]]]]

(* the keys of the metadata whose value is a dict *)
DictKeys == {"NWBFile", "Ecephys", "ElectricalSeries"}

(* d updated in depth with u: a key of u overrides, dict by dict *)
RECURSIVE dict_deep_update(_, _)
dict_deep_update(d, u) ==
    IF u = None THEN d
    ELSE [k \in DOMAIN d \cup DOMAIN u |->
            IF k \notin DOMAIN u THEN d[k]
            ELSE IF k \in DOMAIN d /\ k \in DictKeys THEN dict_deep_update(d[k], u[k])
            ELSE u[k]]

(* lines 846-851 *)
resolve_metadata(rec, md) ==
    IF Has(rec, "nwb_metadata") THEN dict_deep_update(rec.nwb_metadata, md)
    ELSE IF md = None THEN get_nwb_metadata(rec)
    ELSE md

(* lines 854-857 *)
read_mode_always_append(file, overwrite) == "r+"

read_mode(file, overwrite) == IF file.exists /\ ~overwrite THEN "r+" ELSE "w"

(* lines 864-871 *)
new_nwbfile(md) ==
    [session |-> IF md # None /\ Has(md, "NWBFile") THEN md.NWBFile @@ DefaultSession
                 ELSE DefaultSession]
    @@ EmptyNwbfile

(* lines 737-771: the builder after a builder *)
BuilderOrder ==
    <<"add_devices", "add_electrode_groups", "add_electrodes", "add_electrical_series",
      "add_epochs">>

next_builder_skips(op) ==
    IF op = "add_devices" THEN "add_electrodes"
    ELSE IF op = "add_epochs" THEN "return"
    ELSE BuilderOrder[(CHOOSE i \in DOMAIN BuilderOrder : BuilderOrder[i] = op) + 1]

next_builder(op) ==
    IF op = "add_epochs" THEN "return"
    ELSE BuilderOrder[(CHOOSE i \in DOMAIN BuilderOrder : BuilderOrder[i] = op) + 1]

----------------------------------------------------------------------------
(* Inputs: recordings, metadata objects and starting containers *)

SeqsUpTo(S, n) == UNION {[1..k -> S] : k \in 0..n}

Dicts(keys, val) == {[k \in K |-> val[k]] : K \in SUBSET keys}

ChannelProps(keys) == Dicts(keys, [group |-> PyInt(1), quality |-> PyS("good")])

(* recordings of n channels for an n in sizes, each channel with at most   *)
(* one of the properties keys                                              *)
RecordingsWith(sizes, keys) ==
    UNION {{[channel_ids |-> [j \in 1..n |-> j], props |-> p, epochs |-> <<>>,
             sampling_frequency |-> 30000] :
               p \in [1..n -> {d \in ChannelProps(keys) : Cardinality(DOMAIN d) <= 1}]} :
           n \in sizes}

DeviceEntries == Dicts({"name", "description"}, [name |-> "D1", description |-> "custom probe"])

GroupValues == [name |-> "A", description |-> "custom", location |-> "CA1", device |-> "D1"]

(* group entries that give no key, one key, or every key *)
GroupEntries ==
    {e \in Dicts({"name", "description", "location", "device"}, GroupValues) :
        Cardinality(DOMAIN e) \in {0, 1, 4}}

(* a 'group_name' column that puts channel 1 in group A and the others in *)
(* group 0, one that puts every channel in group A, and a column of depths *)
ElectrodesEntries(n) ==
    {[name |-> "group_name", description |-> "group",
      data |-> [j \in 1..n |-> IF j <= k THEN PyS("A") ELSE PyS("0")]] : k \in {1, n}}
    \cup {[name |-> "depth", description |-> "depth", data |-> [j \in 1..n |-> PyInt(j)]]}

(* The dicts under 'Ecephys' that hold the lists dl, gl and el: the key of *)
(* an empty list is present or absent                                      *)
EcephysWith(keys, dl, gl, el) ==
    LET full == [Device |-> [list |-> dl], ElectrodeGroup |-> gl, Electrodes |-> el]
        must == {k \in keys : \/ k = "Device" /\ dl # <<>>
                              \/ k = "ElectrodeGroup" /\ gl # <<>>
                              \/ k = "Electrodes" /\ el # <<>>}
    IN {[k \in K |-> full[k]] : K \in {K \in SUBSET keys : must \subseteq K}}

(* metadata objects with at most MaxList list entries in all *)
Metadatas(keys, deviceEntries, groupEntries, electrodesEntries) ==
    {None, EmptyDict} \cup
    {[Ecephys |-> e] : e \in
        UNION {UNION {UNION {EcephysWith(keys, dl, gl, el) :
            el \in SeqsUpTo(electrodesEntries,
                       IF "Electrodes" \in keys THEN MaxList - Len(dl) - Len(gl) ELSE 0)} :
            gl \in SeqsUpTo(groupEntries,
                       IF "ElectrodeGroup" \in keys THEN MaxList - Len(dl) ELSE 0)} :
            dl \in SeqsUpTo(deviceEntries, IF "Device" \in keys THEN MaxList ELSE 0)}}

(* metadata objects for the electrodes of n channels: at most one device  *)
(* entry, one group entry and MaxColumns columns; a key without entries is *)
(* absent                                                                  *)
ElectrodesMetadatas(n) ==
    {None, EmptyDict} \cup
    {[Ecephys |->
        [k \in {k \in {"Device"} : dl # <<>>} \cup {k \in {"ElectrodeGroup"} : gl # <<>>}
               \cup {k \in {"Electrodes"} : el # <<>>} |->
            [Device |-> [list |-> dl], ElectrodeGroup |-> gl, Electrodes |-> el][k]]] :
        dl \in {<<>>, <<[name |-> "D1"]>>},
        gl \in {<<>>, <<[name |-> "A", device |-> "D1"]>>},
        el \in SeqsUpTo(ElectrodesEntries(n), MaxColumns)}

OldDevice(name) == [name |-> name, description |-> "old probe"]

OldGroup == [name |-> "A", description |-> "old", location |-> "old", device |-> "D1"]

StartingContainers ==
    {EmptyNwbfile,
     [EmptyNwbfile EXCEPT !.devices = <<OldDevice("Device")>>],
     [EmptyNwbfile EXCEPT !.devices = <<OldDevice("D1")>>, !.electrode_groups = <<OldGroup>>]}

(* a container read from a file that holds the electrode of channel 1 *)
WrittenContainer ==
    [EmptyNwbfile EXCEPT
        !.devices = <<OldDevice("D1")>>,
        !.electrode_groups = <<OldGroup>>,
        !.electrodes = [exists |-> TRUE, colnames |-> {},
                        rows |-> <<[id |-> 1, group |-> "A", group_name |-> "A"]>>]]

----------------------------------------------------------------------------
(* Calls. A call passes the caller's metadata object or no metadata; last  *)
(* records the call and how it ended.                                      *)

Argument(with_metadata) == IF with_metadata THEN metadata ELSE None

Call(op, with_metadata, res, warn) ==
    [op |-> op, with_metadata |-> with_metadata, res |-> res, warn |-> warn]

AddDevices ==
    \E with_metadata \in BOOLEAN :
        LET r == add_devices(nwbfile, Argument(with_metadata))
        IN /\ nwbfile' = r.nwb
           /\ last' = Call("add_devices", with_metadata, r.res, FALSE)
           /\ UNCHANGED <<metadata, recording, disk, run>>

AddElectrodeGroups ==
    \E with_metadata \in BOOLEAN :
        LET r == add_electrode_groups(nwbfile, recording, Argument(with_metadata))
        IN /\ nwbfile' = r.nwb
           /\ metadata' = IF with_metadata THEN r.md ELSE metadata
           /\ last' = Call("add_electrode_groups", with_metadata, r.res, r.warn)
           /\ UNCHANGED <<recording, disk, run>>

InitGroups ==
    /\ nwbfile \in StartingContainers
    /\ recording \in RecordingsWith(1..MaxChannels, {"group"})
    /\ metadata \in Metadatas({"Device", "ElectrodeGroup"}, DeviceEntries, GroupEntries, {})
    /\ last = Call("none", FALSE, "ok", FALSE)
    /\ disk = NoFile
    /\ run = Idle

NextGroups == AddDevices \/ AddElectrodeGroups

SpecGroups == InitGroups /\ [][NextGroups]_vars

Orders(S) == {p \in [1..Cardinality(S) -> S] : \A i, j \in DOMAIN p : p[i] = p[j] => i = j}

AddElectrodes ==
    \E with_metadata \in BOOLEAN, order \in Orders(property_names(recording)) :
        LET r == add_electrodes(nwbfile, recording, Argument(with_metadata), order)
        IN /\ nwbfile' = r.nwb
           /\ metadata' = IF with_metadata THEN r.md ELSE metadata
           /\ last' = Call("add_electrodes", with_metadata, r.res, r.warn)
           /\ UNCHANGED <<recording, disk, run>>

Init ==
    /\ nwbfile \in {EmptyNwbfile, WrittenContainer}
    /\ recording \in RecordingsWith({MaxChannels}, {"group", "quality"})
    /\ metadata \in ElectrodesMetadatas(get_num_channels(recording))
    /\ last = Call("none", FALSE, "ok", FALSE)
    /\ disk = NoFile
    /\ run = Idle

Next == AddDevices \/ AddElectrodeGroups \/ AddElectrodes

Spec == Init /\ [][Next]_vars

EpochNames == {"a", "b"}

Epochs ==
    {[name |-> n, start_frame |-> f, end_frame |-> g] :
        n \in EpochNames, f \in 0..(MaxFrame - 1), g \in 1..MaxFrame}

(* the epochs of a recording: an end after its start, no name twice *)
EpochLists ==
    {l \in SeqsUpTo(Epochs, Cardinality(EpochNames)) :
        /\ \A i \in DOMAIN l : l[i].start_frame < l[i].end_frame
        /\ \A i, j \in DOMAIN l : l[i].name = l[j].name => i = j}

EpochRecording ==
    [channel_ids |-> <<1>>, props |-> <<EmptyDict>>, epochs |-> <<>>, sampling_frequency |-> 30000]

WrittenEpoch(tag) ==
    [start_time |-> frame_to_time(EpochRecording, 0),
     stop_time |-> frame_to_time(EpochRecording, 1), tags |-> <<tag>>]

StartingEpochs ==
    {NoTable} \cup
    {[exists |-> TRUE, colnames |-> {}, rows |-> r] :
        r \in {<<WrittenEpoch("x")>>, <<WrittenEpoch("a")>>, <<WrittenEpoch("x"), WrittenEpoch("b")>>}}

AddEpochs ==
    \E epochs \in EpochLists :
        /\ recording' = [recording EXCEPT !.epochs = epochs]
        /\ nwbfile' = add_epochs(nwbfile, recording')
        /\ last' = Call("add_epochs", FALSE, "ok", FALSE)
        /\ UNCHANGED <<metadata, disk, run>>

InitEpochs ==
    /\ nwbfile \in {[EmptyNwbfile EXCEPT !.epochs = e] : e \in StartingEpochs}
    /\ recording = EpochRecording
    /\ metadata = None
    /\ last = Call("none", FALSE, "ok", FALSE)
    /\ disk = NoFile
    /\ run = Idle

NextEpochs == AddEpochs

SpecEpochs == InitEpochs /\ [][NextEpochs]_vars

----------------------------------------------------------------------------
(* Calls of add_electrical_series *)

(* every channel with the gain and the offset of a pattern: gains all 1    *)
(* (not set), all 2, or 1 for the first channel and 2 for the others;      *)
(* offsets all 0 (not set) or all 1                                        *)
GainPatterns == {"unset", "equal", "mixed"}

SeriesProps(j, gains, offset) ==
    (IF gains = "unset" THEN EmptyDict
     ELSE [gain |-> PyInt(IF gains = "mixed" /\ j = 1 THEN 1 ELSE 2)])
    @@ (IF offset = 0 THEN EmptyDict ELSE [offset |-> PyInt(offset)])

SeriesRecording(gains, offset, memmap) ==
    [channel_ids |-> [j \in 1..MaxChannels |-> j],
     props |-> [j \in 1..MaxChannels |-> SeriesProps(j, gains, offset)],
     epochs |-> <<>>, sampling_frequency |-> 30000, memmap |-> memmap]

SeriesRecordings ==
    {SeriesRecording(g, o, m) : g \in GainPatterns, o \in {0, 1}, m \in BOOLEAN}

OldSeries(name) ==
    [name |-> name, description |-> "old", comments |-> "old", electrodes |-> <<0>>,
     conversion |-> 1, channel_conversion |-> None,
     data |-> [iterator |-> "memmap", return_scaled |-> FALSE, added |-> None],
     starting_time |-> frame_to_time(EpochRecording, 0), rate |-> 30000]

(* a container read from a file that holds the electrodes of every channel, *)
(* a raw series and the module ecephys                                      *)
SeriesContainer ==
    [EmptyNwbfile EXCEPT
        !.devices = <<OldDevice("Device")>>,
        !.electrode_groups = <<[OldGroup EXCEPT !.name = "0", !.device = "Device"]>>,
        !.electrodes = [exists |-> TRUE, colnames |-> {},
                        rows |-> [j \in 1..MaxChannels |->
                                     [id |-> j, group |-> "0", group_name |-> "0"]]],
        !.acquisition = <<OldSeries("ElectricalSeries_raw")>>,
        !.processing = [ecephys |-> [description |-> "old module",
                                     data_interfaces |-> EmptyDict]]]

SeriesMetadatas ==
    {EmptyDict,
     [Ecephys |-> [ElectricalSeries |-> [name |-> "my_series", description |-> "custom"]]]}

SeriesCount(nwb) ==
    Len(nwb.acquisition)
    + (IF Has(nwb.processing, "ecephys") /\ Has(nwb.processing["ecephys"].data_interfaces, "Processed")
       THEN Len(nwb.processing["ecephys"].data_interfaces["Processed"].electrical_series) ELSE 0)
    + (IF Has(nwb.processing, "ecephys") /\ Has(nwb.processing["ecephys"].data_interfaces, "LFP")
       THEN Len(nwb.processing["ecephys"].data_interfaces["LFP"].electrical_series) ELSE 0)

SeriesCall(a, res, warn) ==
    [op |-> "add_electrical_series", with_metadata |-> a.with_metadata, res |-> res,
     warn |-> warn, write_as |-> a.write_as, es_key |-> a.es_key,
     write_scaled |-> a.write_scaled]

DefaultArguments ==
    [with_metadata |-> FALSE, buffer_mb |-> 500, use_times |-> FALSE, write_as |-> "raw",
     es_key |-> None, write_scaled |-> FALSE]

(* the arguments of a call: every kind (and one that is none of them) with *)
(* every key and both values of write_scaled, and the defaults with a      *)
(* small buffer or with use_times                                          *)
SeriesArguments ==
    {[DefaultArguments EXCEPT !.with_metadata = m, !.write_as = w, !.es_key = k,
                              !.write_scaled = s] :
        m \in BOOLEAN, w \in WriteAsKinds \cup {"spikes"},
        k \in {None, PyS("ElectricalSeries"), PyS("ElectricalSeries_lfp")}, s \in BOOLEAN}
    \cup {[DefaultArguments EXCEPT !.buffer_mb = 10],
          [DefaultArguments EXCEPT !.use_times = TRUE]}

AddElectricalSeries ==
    /\ SeriesCount(nwbfile) < MaxSeries
    /\ \E a \in SeriesArguments, order \in Orders(property_names(recording)) :
           LET r == add_electrical_series(nwbfile, recording, Argument(a.with_metadata),
                        order, a.buffer_mb, a.use_times, a.write_as, a.es_key, a.write_scaled)
           IN /\ nwbfile' = r.nwb
              /\ metadata' = IF a.with_metadata THEN r.md ELSE metadata
              /\ last' = SeriesCall(a, r.res, r.warn)
              /\ UNCHANGED <<recording, disk, run>>

(* every recording with the container that holds its electrodes, and the   *)
(* recording without gains and offsets with every container                *)
InitSeries ==
    /\ \/ /\ nwbfile = SeriesContainer
          /\ recording \in SeriesRecordings
       \/ /\ nwbfile \in {EmptyNwbfile, WrittenContainer}
          /\ recording = SeriesRecording("unset", 0, FALSE)
    /\ metadata \in SeriesMetadatas
    /\ last = Call("none", FALSE, "ok", FALSE)
    /\ disk = NoFile
    /\ run = Idle

NextSeries == AddElectricalSeries

SpecSeries == InitSeries /\ [][NextSeries]_vars

----------------------------------------------------------------------------
(* Calls of check_module *)

ModuleNames == {"ecephys", "behavior", "TestModule"}

ModuleDescriptions == {None, PyS("This is a test module."), PyS(EcephysDescription)}

(* a module read from a file, with a data interface that holds a series *)
OldModule ==
    [description |-> "old module",
     data_interfaces |-> [LFP |-> [electrical_series |-> <<OldSeries("ElectricalSeries_lfp")>>]]]

ModuleCall(name, description, module) ==
    [op |-> "check_module", with_metadata |-> FALSE, res |-> "ok", warn |-> FALSE,
     name |-> name, description |-> description, module |-> module]

CheckModule ==
    \E name \in ModuleNames, description \in ModuleDescriptions :
        /\ nwbfile' = check_module(nwbfile, name, description)
        /\ last' = ModuleCall(name, description, nwbfile'.processing[name])
        /\ UNCHANGED <<metadata, recording, disk, run>>

InitModules ==
    /\ nwbfile \in {[EmptyNwbfile EXCEPT !.processing = [n \in N |-> OldModule]] :
                       N \in SUBSET ModuleNames}
    /\ recording = EpochRecording
    /\ metadata = None
    /\ last = Call("none", FALSE, "ok", FALSE)
    /\ disk = NoFile
    /\ run = Idle

NextModules == CheckModule

SpecModules == InitModules /\ [][NextModules]_vars

----------------------------------------------------------------------------
(* Calls of set_dynamic_table_property on the electrode table *)

(* a table of MaxChannels rows, the first with the greatest id, with the   *)
(* columns names                                                           *)
PropertyTable(names) ==
    [exists |-> TRUE, colnames |-> names,
     rows |-> [k \in 1..MaxChannels |->
                  [id |-> MaxChannels + 1 - k] @@ [n \in names |-> PyS("good")]]]

(* lists of the greatest id, the id 1 and an id that is not in the table,  *)
(* a list that holds a string, and an integer                              *)
RowIdLists ==
    {[list |-> [i \in DOMAIN s |-> PyInt(s[i])]] :
        s \in {<<>>, <<1>>, <<MaxChannels>>, <<1, MaxChannels>>, <<MaxChannels, 1>>, <<1, 1>>,
               <<0>>, <<1, 0>>}}
    \cup {[list |-> <<PyInt(1), PyS("1")>>], PyInt(1)}

PropertyNames == {PyS("quality"), PyS("depth"), PyInt(0)}

(* no value, one, two, and one for every row *)
ValueLists ==
    {<<>>, <<PyS("a")>>, <<PyS("a"), PyS("b")>>, [k \in 1..MaxChannels |-> PyS("b")]}

PropertyCall(row_ids, property_name, values, index, default_value, res) ==
    [op |-> "set_dynamic_table_property", with_metadata |-> FALSE, res |-> res,
     warn |-> FALSE, row_ids |-> row_ids, property_name |-> property_name,
     values |-> values, index |-> index, default_value |-> default_value]

(* calls on the table until the column depth has been added *)
SetDynamicTableProperty ==
    /\ "depth" \notin nwbfile.electrodes.colnames
    /\ \E row_ids \in RowIdLists, property_name \in PropertyNames, values \in ValueLists,
          index \in BOOLEAN, default_value \in {NaN, PyS("")} :
           LET r == set_dynamic_table_property(nwbfile.electrodes, row_ids, property_name,
                        values, index, default_value)
           IN /\ nwbfile' = [nwbfile EXCEPT !.electrodes = r.table]
              /\ last' = PropertyCall(row_ids, property_name, values, index, default_value,
                                      r.res)
              /\ UNCHANGED <<metadata, recording, disk, run>>

InitTable ==
    /\ nwbfile \in {[EmptyNwbfile EXCEPT !.electrodes = PropertyTable(names)] :
                       names \in {{}, {"quality"}}}
    /\ recording = EpochRecording
    /\ metadata = None
    /\ last = Call("none", FALSE, "ok", FALSE)
    /\ disk = NoFile
    /\ run = Idle

NextTable == SetDynamicTableProperty

SpecTable == InitTable /\ [][NextTable]_vars

----------------------------------------------------------------------------
(* Calls of write_recording, step by step. run.pc is the position of the   *)
(* call: open, load, the five builders of add_all_to_nwbfile, write, close *)
(* and return; run.io is the state of the NWBHDF5IO object, run.md the     *)
(* metadata handed to the builders, run.res "ok" or the exception raised.  *)

SessionMetadata == [NWBFile |-> [session_description |-> "my session"]]

(* metadata whose electrode group is not a channel group of the recording *)
GroupMetadata ==
    [Ecephys |-> [Device |-> [list |-> <<[name |-> "D1"]>>],
                  ElectrodeGroup |-> <<[name |-> "A", device |-> "D1"]>>]]

WriteMetadatas == {SessionMetadata, GroupMetadata, SessionMetadata @@ GroupMetadata}

RecordedMetadata ==
    [NWBFile |-> [session_description |-> "recorded", identifier |-> "recorded id"],
     Ecephys |-> [Device |-> [list |-> <<[name |-> "Probe"]>>]]]

(* a recording with one epoch, with the first channel in group 1 or every  *)
(* channel in group 0                                                      *)
WriteRecording(grouped) ==
    [channel_ids |-> [j \in 1..MaxChannels |-> j],
     props |-> [j \in 1..MaxChannels |->
                   IF grouped /\ j = 1 THEN [group |-> PyInt(1)] ELSE EmptyDict],
     epochs |-> <<[name |-> "a", start_frame |-> 0, end_frame |-> MaxFrame]>>,
     sampling_frequency |-> 30000, memmap |-> FALSE]

(* the second kind is an NwbRecordingExtractor, which carries nwb_metadata *)
WriteRecordings ==
    {WriteRecording(g) : g \in BOOLEAN}
    \cup {[nwb_metadata |-> RecordedMetadata] @@ WriteRecording(FALSE)}

(* the file written by an earlier session *)
WrittenFile ==
    [exists |-> TRUE,
     nwb |-> [session |-> [DefaultSession EXCEPT !.session_description = "old session"]]
             @@ SeriesContainer]

(* a file that holds the electrode of channel 1 only, in group A *)
PartFile ==
    [exists |-> TRUE,
     nwb |-> [session |-> [DefaultSession EXCEPT !.session_description = "old session"]]
             @@ WrittenContainer]

WorkingIsCallers == run.with_metadata /\ ~Has(recording, "nwb_metadata")

StartWrite ==
    /\ run.pc = "idle"
    /\ IF nwbfile # None THEN SeriesCount(nwbfile) < MaxSeries
       ELSE disk.exists /\ disk.nwb # None => SeriesCount(disk.nwb) < MaxSeries
    /\ \E save_path, overwrite, with_metadata \in BOOLEAN, write_as \in {"raw", "lfp"} :
           LET r == [pc |-> "return", save_path |-> save_path, overwrite |-> overwrite,
                     with_metadata |-> with_metadata, write_as |-> write_as,
                     mode |-> "none", io |-> "none", writes |-> 0,
                     md |-> resolve_metadata(recording, Argument(with_metadata)),
                     res |-> "ok"]
           IN run' = IF save_path /\ nwbfile # None THEN [r EXCEPT !.res = "AssertionError"]
                     ELSE IF nwbfile # None THEN [r EXCEPT !.pc = "add_devices"]
                     ELSE IF ~save_path THEN [r EXCEPT !.res = "TypeError"]
                     ELSE [r EXCEPT !.pc = "open", !.mode = read_mode(disk, overwrite)]
    /\ UNCHANGED <<nwbfile, metadata, recording, last, disk>>

(* line 859: mode w truncates the file, when the file is opened or not     *)
(* before the first write                                                  *)
OpenFile ==
    /\ run.pc = "open"
    /\ run' = [run EXCEPT !.pc = "load", !.io = "open"]
    /\ disk' \in IF run.mode = "w" THEN {disk, [exists |-> TRUE, nwb |-> None]} ELSE {disk}
    /\ UNCHANGED <<nwbfile, metadata, recording, last>>

LoadFile ==
    /\ run.pc = "load"
    /\ IF run.mode = "r+"
       THEN IF disk.nwb = None
            THEN /\ run' = [run EXCEPT !.pc = "close", !.res = "OSError"]
                 /\ UNCHANGED nwbfile
            ELSE /\ nwbfile' = disk.nwb
                 /\ run' = [run EXCEPT !.pc = "add_devices"]
       ELSE /\ nwbfile' = new_nwbfile(run.md)
            /\ run' = [run EXCEPT !.pc = "add_devices"]
    /\ UNCHANGED <<metadata, recording, last, disk>>

BuilderEndsUnscoped(op, r) ==
    /\ nwbfile' = r.nwb
    /\ metadata' = IF WorkingIsCallers THEN r.md ELSE metadata
    /\ last' = Call(op, TRUE, r.res, r.warn)
    /\ run' = [run EXCEPT
                  !.md = r.md,
                  !.res = r.res,
                  !.pc = IF r.res # "ok" THEN "return"
                         ELSE IF next_builder(op) # "return" THEN next_builder(op)
                         ELSE IF run.io = "open" THEN "write" ELSE "return"]
    /\ UNCHANGED <<recording, disk>>

(* the builder op ended with r *)
BuilderEnds(op, r) ==
    /\ nwbfile' = r.nwb
    /\ metadata' = IF WorkingIsCallers THEN r.md ELSE metadata
    /\ last' = Call(op, TRUE, r.res, r.warn)
    /\ run' = [run EXCEPT
                  !.md = r.md,
                  !.res = r.res,
                  !.pc = IF r.res # "ok" THEN IF run.io = "open" THEN "close" ELSE "return"
                         ELSE IF next_builder(op) # "return" THEN next_builder(op)
                         ELSE IF run.io = "open" THEN "write" ELSE "return"]
    /\ UNCHANGED <<recording, disk>>

RunAddDevices ==
    /\ run.pc = "add_devices"
    /\ BuilderEnds("add_devices",
           Ctx(add_devices(nwbfile, run.md).nwb, run.md, add_devices(nwbfile, run.md).res, FALSE))

RunAddElectrodeGroups ==
    /\ run.pc = "add_electrode_groups"
    /\ BuilderEnds("add_electrode_groups", add_electrode_groups(nwbfile, recording, run.md))

RunAddElectrodes ==
    /\ run.pc = "add_electrodes"
    /\ \E order \in Orders(property_names(recording)) :
           BuilderEnds("add_electrodes", add_electrodes(nwbfile, recording, run.md, order))

RunAddElectricalSeries ==
    /\ run.pc = "add_electrical_series"
    /\ \E order \in Orders(property_names(recording)) :
           BuilderEnds("add_electrical_series",
               add_electrical_series(nwbfile, recording, run.md, order, 500, FALSE,
                                     run.write_as, None, FALSE))

RunAddEpochs ==
    /\ run.pc = "add_epochs"
    /\ BuilderEnds("add_epochs", Ctx(add_epochs(nwbfile, recording), run.md, "ok", FALSE))

WriteFile ==
    /\ run.pc = "write"
    /\ disk' = [exists |-> TRUE, nwb |-> nwbfile]
    /\ run' = [run EXCEPT !.pc = "close", !.writes = @ + 1]
    /\ UNCHANGED <<nwbfile, metadata, recording, last>>

CloseFile ==
    /\ run.pc = "close"
    /\ run' = [run EXCEPT !.pc = "return", !.io = "closed"]
    /\ UNCHANGED <<nwbfile, metadata, recording, last, disk>>

Return ==
    /\ run.pc = "return"
    /\ run' = Idle
    /\ last' = [op |-> "write_recording", with_metadata |-> run.with_metadata,
                res |-> run.res, warn |-> FALSE, save_path |-> run.save_path,
                mode |-> run.mode, io |-> run.io, writes |-> run.writes]
    /\ nwbfile' = IF run.mode = "none" THEN nwbfile ELSE None
    /\ UNCHANGED <<metadata, recording, disk>>

InitWrite ==
    /\ \/ nwbfile = None /\ disk \in {NoFile, WrittenFile, PartFile}
       \/ nwbfile = EmptyNwbfile /\ disk = NoFile
    /\ recording \in WriteRecordings
    /\ metadata \in WriteMetadatas
    /\ last = Call("none", FALSE, "ok", FALSE)
    /\ run = Idle

NextWrite ==
    \/ StartWrite
    \/ OpenFile
    \/ LoadFile
    \/ RunAddDevices
    \/ RunAddElectrodeGroups
    \/ RunAddElectrodes
    \/ RunAddElectricalSeries
    \/ RunAddEpochs
    \/ WriteFile
    \/ CloseFile
    \/ Return

SpecWrite == InitWrite /\ [][NextWrite]_vars

----------------------------------------------------------------------------
(* Properties of add_devices and add_electrode_groups *)

IsPrefix(s, t) == Len(s) <= Len(t) /\ \A i \in DOMAIN s : t[i] = s[i]

NoDuplicateNames(s) == \A i, j \in DOMAIN s : s[i].name = s[j].name => i = j

Completed(op) == last.op = op /\ last.res = "ok"

(* C2: add_devices and add_electrode_groups leave the devices and the      *)
(* electrode groups already in the container as they were, add none under  *)
(* a name that is already there, and so keep the names unique.             *)
ExistingEntitiesUntouched ==
    [][last'.op \in {"add_devices", "add_electrode_groups"} =>
          /\ IsPrefix(nwbfile.devices, nwbfile'.devices)
          /\ IsPrefix(nwbfile.electrode_groups, nwbfile'.electrode_groups)
          /\ NoDuplicateNames(nwbfile'.devices)
          /\ NoDuplicateNames(nwbfile'.electrode_groups)]_vars

(* an entry of the metadata names the group A that the container held,    *)
(* with another description, and the group is as it was                   *)
ExistingGroupKept ==
    /\ Completed("add_electrode_groups") /\ last.with_metadata /\ metadata # None
    /\ \E i \in DOMAIN metadata.Ecephys.ElectrodeGroup :
           /\ Get(metadata.Ecephys.ElectrodeGroup[i], "name", "") = "A"
           /\ Get(metadata.Ecephys.ElectrodeGroup[i], "description", "") = "custom"
    /\ nwbfile.electrode_groups = <<OldGroup>>

(* C4: after a completed add_devices the container has a device.           *)
AlwaysOneDevice == Completed("add_devices") => Len(nwbfile.devices) > 0

(* C5: after a completed add_electrode_groups the container has an         *)
(* electrode group.                                                        *)
AlwaysOneElectrodeGroup ==
    Completed("add_electrode_groups") => Len(nwbfile.electrode_groups) > 0

(* the metadata held an empty 'ElectrodeGroup' list and the groups of the  *)
(* channels were created                                                   *)
GroupsFromChannels ==
    /\ Completed("add_electrode_groups") /\ last.with_metadata
    /\ metadata # None /\ metadata.Ecephys.ElectrodeGroup = <<>>
    /\ Len(nwbfile.electrode_groups) > 0

DefaultGroupName == IntStr(unique_channel_groups(recording)[1])

DeviceName(dev) == Get(dev, "name", "Device")

GroupName(grp) == Get(grp, "name", DefaultGroupName)

(* entry i is the first entry of the list under its name, and the name is  *)
(* not in the set held                                                     *)
NewName(names, held, i) == names[i] \notin held /\ \A j \in 1..(i - 1) : names[j] # names[i]

HasGroupList(md) == md # None /\ Has(md, "Ecephys") /\ Has(md.Ecephys, "ElectrodeGroup")

HasDeviceList(md) == md # None /\ Has(md, "Ecephys") /\ Has(md.Ecephys, "Device")

(* C6: a group entry that names a device the container lacks makes         *)
(* add_electrode_groups create the device, warn, and create the group      *)
(* linked to it, without raising.                                          *)
MissingDeviceGenerated ==
    [][(last'.op = "add_electrode_groups" /\ last'.with_metadata /\ HasGroupList(metadata)) =>
          LET items == metadata.Ecephys.ElectrodeGroup
              names == [i \in DOMAIN items |-> GroupName(items[i])]
          IN \A i \in DOMAIN items :
                (/\ NewName(names, Names(nwbfile.electrode_groups), i)
                 /\ Has(items[i], "device")
                 /\ items[i].device \notin Names(nwbfile.devices))
                => /\ last'.res = "ok"
                   /\ last'.warn
                   /\ items[i].device \in Names(nwbfile'.devices)
                   /\ \E k \in DOMAIN nwbfile'.electrode_groups :
                         /\ nwbfile'.electrode_groups[k].name = names[i]
                         /\ nwbfile'.electrode_groups[k].device = items[i].device]_vars

(* C7: after add_electrode_groups completed with an 'ElectrodeGroup' list  *)
(* the container holds a group for every entry and a group for every       *)
(* channel group of the recording.                                         *)
ChannelGroupsIncluded ==
    (Completed("add_electrode_groups") /\ last.with_metadata /\ metadata # None) =>
        /\ \A i \in DOMAIN metadata.Ecephys.ElectrodeGroup :
               GroupName(metadata.Ecephys.ElectrodeGroup[i]) \in Names(nwbfile.electrode_groups)
        /\ \A g \in Range(unique_channel_groups(recording)) :
               IntStr(g) \in Names(nwbfile.electrode_groups)

(* C9: a device or electrode group created from an entry of the metadata   *)
(* has every field the entry gives and the default for every other field.  *)
MetadataOverridesDefaults ==
    [][(last'.res = "ok" /\ last'.with_metadata) =>
          /\ (last'.op = "add_devices" /\ HasDeviceList(metadata)) =>
                LET items == metadata.Ecephys.Device.list
                    names == [i \in DOMAIN items |-> DeviceName(items[i])]
                IN \A i \in DOMAIN items :
                      NewName(names, Names(nwbfile.devices), i) =>
                         \E k \in DOMAIN nwbfile'.devices :
                            nwbfile'.devices[k] =
                               [name |-> names[i],
                                description |-> Get(items[i], "description", "Ecephys probe.")]
          /\ (last'.op = "add_electrode_groups" /\ HasGroupList(metadata)) =>
                LET items == metadata.Ecephys.ElectrodeGroup
                    names == [i \in DOMAIN items |-> GroupName(items[i])]
                IN \A i \in DOMAIN items :
                      NewName(names, Names(nwbfile.electrode_groups), i) =>
                         \E k \in DOMAIN nwbfile'.electrode_groups :
                            nwbfile'.electrode_groups[k] =
                               [name |-> names[i],
                                description |-> Get(items[i], "description", "no description"),
                                location |-> Get(items[i], "location", "unknown"),
                                device |-> Get(items[i], "device", nwbfile'.devices[1].name)]]_vars

(* an entry that gives only the location made a group with that location  *)
(* and the default name and description                                    *)
GroupFromPartialEntry ==
    /\ Completed("add_electrode_groups") /\ last.with_metadata /\ metadata # None
    /\ \E i \in DOMAIN metadata.Ecephys.ElectrodeGroup :
           metadata.Ecephys.ElectrodeGroup[i] = [location |-> "CA1"]
    /\ \E k \in DOMAIN nwbfile.electrode_groups :
           /\ nwbfile.electrode_groups[k].name = DefaultGroupName
           /\ nwbfile.electrode_groups[k].location = "CA1"
           /\ nwbfile.electrode_groups[k].description = "no description"

----------------------------------------------------------------------------
(* Properties of add_electrodes *)

ChannelIndex(id) == CHOOSE j \in DOMAIN recording.channel_ids : recording.channel_ids[j] = id

HasElectrodesList(md) == md # None /\ Has(md, "Ecephys") /\ Has(md.Ecephys, "Electrodes")

(* C1: every electrode group references a device of the container and     *)
(* every electrode row references an electrode group of the container.     *)
ReferentialIntegrity ==
    /\ \A k \in DOMAIN nwbfile.electrode_groups :
           nwbfile.electrode_groups[k].device \in Names(nwbfile.devices)
    /\ \A k \in DOMAIN nwbfile.electrodes.rows :
           nwbfile.electrodes.rows[k].group \in Names(nwbfile.electrode_groups)

(* add_electrodes added a row for a channel, after it created the group   *)
(* that a 'group_name' column names                                        *)
ElectrodeRowLinked ==
    /\ Completed("add_electrodes") /\ last.warn
    /\ \E k \in DOMAIN nwbfile.electrodes.rows :
           /\ nwbfile.electrodes.rows[k].id = MaxChannels
           /\ \E g \in DOMAIN nwbfile.electrode_groups :
                  /\ nwbfile.electrode_groups[g].name = nwbfile.electrodes.rows[k].group
                  /\ nwbfile.electrode_groups[g].device \in Names(nwbfile.devices)
    /\ "A" \in Names(nwbfile.electrode_groups)

(* C3: a second add_electrodes with the same recording, container and     *)
(* metadata object completes and leaves the electrode table as it was.     *)
AddElectrodesIdempotent ==
    [][(/\ last.op = "add_electrodes" /\ last.res = "ok"
        /\ last'.op = "add_electrodes" /\ last'.with_metadata = last.with_metadata)
       => (last'.res = "ok" /\ nwbfile'.electrodes = nwbfile.electrodes)]_vars

(* C8: with a 'group_name' column in the metadata, every row that          *)
(* add_electrodes adds is linked to the group the column names for its     *)
(* channel.                                                                *)
GroupNameColumnOverrides ==
    [][(/\ last'.op = "add_electrodes" /\ last'.res = "ok"
        /\ last'.with_metadata /\ HasElectrodesList(metadata)) =>
          LET items == metadata.Ecephys.Electrodes
              rows == nwbfile'.electrodes.rows
          IN \A i \in DOMAIN items :
                (/\ Get(items[i], "name", "") = "group_name"
                 /\ \A h \in (i + 1)..Len(items) : Get(items[h], "name", "") # "group_name")
                => \A k \in (Len(nwbfile.electrodes.rows) + 1)..Len(rows) :
                      /\ rows[k].group = PyStr(items[i].data[ChannelIndex(rows[k].id)])
                      /\ rows[k].group_name = rows[k].group]_vars

(* the value of property prop for the channel at position j, or the fill   *)
(* value of the column: '' when the property holds strings, NaN otherwise  *)
FilledValue(prop, j) ==
    IF prop \in get_channel_property_names(recording, j) THEN recording.props[j][prop]
    ELSE IF \E h \in DOMAIN recording.props :
                prop \in DOMAIN recording.props[h] /\ Has(recording.props[h][prop], "str")
         THEN PyS("")
         ELSE NaN

(* C21: for every channel property that add_electrodes turns into a        *)
(* column, the array of the column has one entry per channel, in channel   *)
(* order, with the fill value at every channel that lacks the property,    *)
(* and the row added for channel j holds the value of channel j.           *)
ColumnArraysFilled ==
    last.op = "add_electrodes" =>
        /\ \A prop \in property_names(recording) :
               LET data == property_data(recording, prop, 1, <<>>)
               IN /\ Len(data) = get_num_channels(recording)
                  /\ \A j \in DOMAIN data : data[j] = FilledValue(prop, j)
        /\ last.res = "ok" =>
               \A k \in DOMAIN nwbfile.electrodes.rows :
                   Has(nwbfile.electrodes.rows[k], "quality") =>
                       nwbfile.electrodes.rows[k].quality =
                           FilledValue("quality", ChannelIndex(nwbfile.electrodes.rows[k].id))

----------------------------------------------------------------------------
(* Properties of add_epochs *)

RowsTagged(rows, name) == {k \in DOMAIN rows : rows[k].tags = <<name>>}

EpochNamed(name) == CHOOSE i \in DOMAIN recording'.epochs : recording'.epochs[i].name = name

AddEpochsIdempotent ==
    [][(/\ last.op = "add_epochs"
        /\ last'.op = "add_epochs"
        /\ recording' = recording
        /\ Len(recording.epochs) >= 1)
       => nwbfile'.epochs = nwbfile.epochs]_vars

----------------------------------------------------------------------------
(* Properties of add_electrical_series *)

(* the series held by the destination of a kind, none when the module or   *)
(* the data interface is not in the container                              *)
Held(nwb, write_as) ==
    IF write_as = "raw" THEN nwb.acquisition
    ELSE IF Has(nwb.processing, "ecephys")
            /\ Has(nwb.processing["ecephys"].data_interfaces, InterfaceOf(write_as))
         THEN nwb.processing["ecephys"].data_interfaces[InterfaceOf(write_as)].electrical_series
         ELSE <<>>

SeriesCalled == last'.op = "add_electrical_series"

(* the metadata the call received *)
Passed == IF last'.with_metadata THEN metadata ELSE None

(* the name under metadata['Ecephys'][es_key] when the call takes it from  *)
(* there, else the default of the kind                                     *)
ResolvedName ==
    IF /\ Passed # None
       /\ Has(Passed, "Ecephys")
       /\ last'.es_key # None
       /\ Has(Passed.Ecephys, last'.es_key.str)
       /\ Has(Passed.Ecephys[last'.es_key.str], "name")
    THEN Passed.Ecephys[last'.es_key.str].name
    ELSE eseries_defaults(last'.write_as).name

(* C12: a completed add_electrical_series call adds exactly one series to  *)
(* the destination selected by write_as, after the series that destination *)
(* held, and leaves the series of the two other destinations unchanged.    *)
OneSeriesAdded ==
    [][(SeriesCalled /\ last'.res = "ok") =>
          /\ Len(Held(nwbfile', last'.write_as)) = Len(Held(nwbfile, last'.write_as)) + 1
          /\ IsPrefix(Held(nwbfile, last'.write_as), Held(nwbfile', last'.write_as))
          /\ \A w \in WriteAsKinds \ {last'.write_as} : Held(nwbfile', w) = Held(nwbfile, w)]_vars

(* a series was added to acquisition after the series read from the file *)
SeriesAddedAfterOld ==
    /\ Completed("add_electrical_series")
    /\ last.write_as = "raw"
    /\ Len(nwbfile.acquisition) = 2
    /\ nwbfile.acquisition[1] = OldSeries("ElectricalSeries_raw")
    /\ nwbfile.acquisition[2].name = "my_series"

(* C13: a call whose resolved series name is already written in the        *)
(* selected destination raises an assertion error and adds nothing there,  *)
(* and after every call no destination holds two series of the same name.  *)
SeriesNamesUnique ==
    [][SeriesCalled =>
          /\ \A w \in WriteAsKinds : NoDuplicateNames(Held(nwbfile', w))
          /\ (/\ last'.write_as \in WriteAsKinds
              /\ ResolvedName \in Names(Held(nwbfile, last'.write_as)))
             => /\ last'.res = "AssertionError"
                /\ Held(nwbfile', last'.write_as) = Held(nwbfile, last'.write_as)]_vars

(* a second raw series under the default name was rejected *)
DuplicateSeriesRejected ==
    /\ last.op = "add_electrical_series"
    /\ last.with_metadata
    /\ last.write_as = "raw"
    /\ last.es_key = None
    /\ last.res = "AssertionError"
    /\ Names(nwbfile.acquisition) = {"ElectricalSeries_raw"}
    /\ Len(nwbfile.acquisition) = 1

(* C14: a call with a violated precondition (write_as is none of the three *)
(* kinds, es_key is given but absent from metadata['Ecephys'], or the      *)
(* series name is already written) raises and leaves the container as it   *)
(* was: no electrode, electrode group, device, processing module or data   *)
(* interface has been added.                                               *)
FailedCallChangesNothing ==
    [][(/\ SeriesCalled
        /\ \/ last'.write_as \notin WriteAsKinds
           \/ /\ Passed # None
              /\ Has(Passed, "Ecephys")
              /\ last'.es_key # None
              /\ ~Has(Passed.Ecephys, last'.es_key.str)
           \/ /\ last'.write_as \in WriteAsKinds
              /\ ResolvedName \in Names(Held(nwbfile, last'.write_as)))
       => /\ last'.res # "ok"
          /\ nwbfile' = nwbfile]_vars

(* C15: the call raises NotImplementedError only for a recording with a    *)
(* channel whose offset / gain is not an integer; such a recording is      *)
(* never written with write_scaled False, and with write_scaled True the   *)
(* call is not rejected with that error.                                   *)
ScaledAvoidsCoercionError ==
    [][SeriesCalled =>
          /\ last'.res = "NotImplementedError" => ~coercible(recording)
          /\ (~coercible(recording) /\ ~last'.write_scaled) => last'.res # "ok"
          /\ last'.write_scaled => last'.res # "NotImplementedError"]_vars

(* the series a completed call added *)
NewSeries == Held(nwbfile', last'.write_as)[Len(Held(nwbfile', last'.write_as))]

AllOffsetsZero == \A j \in DOMAIN recording.channel_ids : get_channel_offsets(recording)[j] = 0

(* C22, as claimed: the series is written with the memory-mapped iterator  *)
(* exactly when the traces of the recording are memory-mapped, and with    *)
(* the generator-based iterator otherwise.                                 *)
MemmapIteratorIffMemmap ==
    [][(SeriesCalled /\ last'.res = "ok") =>
          NewSeries.data.iterator = (IF recording.memmap THEN "memmap" ELSE "generator")]_vars

(* C22, amended: the series is written with the memory-mapped iterator     *)
(* exactly when the traces of the recording are memory-mapped and every    *)
(* channel offset is 0, and with the generator-based iterator otherwise.   *)
MemmapIteratorIffMemmapAndNoOffsets ==
    [][(SeriesCalled /\ last'.res = "ok") =>
          NewSeries.data.iterator =
              (IF recording.memmap /\ AllOffsetsZero THEN "memmap" ELSE "generator")]_vars

(* memory-mapped traces with channel offsets were written with the         *)
(* generator-based iterator                                                *)
MemmapWrittenByGenerator ==
    /\ Completed("add_electrical_series")
    /\ recording.memmap
    /\ ~AllOffsetsZero
    /\ Held(nwbfile, last.write_as)[Len(Held(nwbfile, last.write_as))].data.iterator = "generator"

(* the gain of the channel at position j, 1 when the property is not set *)
GainOf(j) == IF "gain" \in DOMAIN recording.props[j] THEN recording.props[j]["gain"].int ELSE 1

GainsDiffer == \E i, j \in DOMAIN recording.channel_ids : GainOf(i) # GainOf(j)

(* C23: the conversion of the series a completed call adds, in units of    *)
(* 1e-6: 1 and no channel conversion with write_scaled; the common gain    *)
(* and no channel conversion without write_scaled when all gains are       *)
(* equal; 1 and the gains as channel conversion, one per channel in        *)
(* channel order, without write_scaled when two gains differ.              *)
ConversionFromGains ==
    [][(SeriesCalled /\ last'.res = "ok") =>
          /\ last'.write_scaled =>
                 /\ NewSeries.conversion = 1
                 /\ NewSeries.channel_conversion = None
          /\ (~last'.write_scaled /\ ~GainsDiffer) =>
                 /\ \A j \in DOMAIN recording.channel_ids : NewSeries.conversion = GainOf(j)
                 /\ NewSeries.channel_conversion = None
          /\ (~last'.write_scaled /\ GainsDiffer) =>
                 /\ NewSeries.conversion = 1
                 /\ DOMAIN NewSeries.channel_conversion = DOMAIN recording.channel_ids
                 /\ \A j \in DOMAIN recording.channel_ids :
                        NewSeries.channel_conversion[j] = GainOf(j)]_vars

(* a recording with two different gains was written unscaled, with its     *)
(* gains as channel conversion                                             *)
GainsWrittenPerChannel ==
    /\ Completed("add_electrical_series")
    /\ ~last.write_scaled
    /\ GainsDiffer
    /\ LET es == Held(nwbfile, last.write_as)[Len(Held(nwbfile, last.write_as))]
       IN /\ es.conversion = 1
          /\ es.channel_conversion = [j \in DOMAIN recording.channel_ids |-> GainOf(j)]

----------------------------------------------------------------------------
(* Properties of check_module *)

(* C18: check_module is a get-or-create: a module that is in the container *)
(* under the name is returned as it is and the container is unchanged;     *)
(* else exactly one module is created, with the name and the description   *)
(* (the name when the description is None) and without data interface, and *)
(* it is the module returned; the other modules are as they were.          *)
CheckModuleGetOrCreate ==
    [][last'.op = "check_module" =>
          IF Has(nwbfile.processing, last'.name)
          THEN /\ nwbfile' = nwbfile
               /\ last'.module = nwbfile.processing[last'.name]
          ELSE /\ DOMAIN nwbfile'.processing = DOMAIN nwbfile.processing \cup {last'.name}
               /\ \A n \in DOMAIN nwbfile.processing :
                      nwbfile'.processing[n] = nwbfile.processing[n]
               /\ nwbfile'.processing[last'.name].description =
                      (IF last'.description = None THEN last'.name ELSE last'.description.str)
               /\ nwbfile'.processing[last'.name].data_interfaces = EmptyDict
               /\ last'.module = nwbfile'.processing[last'.name]
               /\ nwbfile' = [nwbfile EXCEPT !.processing = nwbfile'.processing]]_vars

(* the module TestModule was created with the description given, next to   *)
(* the module ecephys read from the file, and a later call with another    *)
(* description returned ecephys as it was                                  *)
ModuleCreatedAndKept ==
    /\ last.op = "check_module"
    /\ last.name = "ecephys"
    /\ last.description = None
    /\ last.module = OldModule
    /\ DOMAIN nwbfile.processing = {"ecephys", "TestModule"}
    /\ nwbfile.processing["TestModule"].description = "This is a test module."
    /\ nwbfile.processing["ecephys"] = OldModule

----------------------------------------------------------------------------
(* Properties of write_recording and add_all_to_nwbfile *)

Builders == Range(BuilderOrder)

Stepped == run'.pc # run.pc

(* C16: write_recording with a save_path appends exactly when the file     *)
(* exists and overwrite is False: the container read from the file is the  *)
(* one the builders extend and the one written back; in every other case   *)
(* the container is a new one, empty, with the default NWBFile fields      *)
(* overridden by metadata['NWBFile'], and it is the one written.           *)
WriteAppendsOrCreates ==
    [][/\ (run.pc = "idle" /\ run'.pc = "open")
          => (run'.mode = "r+" <=> (disk.exists /\ ~run'.overwrite))
       /\ (run.pc = "load" /\ run'.pc = "add_devices")
          => IF run.mode = "r+" THEN nwbfile' = disk.nwb
             ELSE /\ \A k \in DOMAIN DefaultSession :
                        nwbfile'.session[k] =
                           (IF Has(run.md, "NWBFile") /\ Has(run.md.NWBFile, k)
                            THEN run.md.NWBFile[k] ELSE DefaultSession[k])
                  /\ [k \in DOMAIN EmptyNwbfile |-> nwbfile'[k]] = EmptyNwbfile
       /\ (run.pc \in Builders /\ Stepped)
          => /\ IsPrefix(nwbfile.devices, nwbfile'.devices)
             /\ IsPrefix(nwbfile.electrode_groups, nwbfile'.electrode_groups)
             /\ IsPrefix(nwbfile.electrodes.rows, nwbfile'.electrodes.rows)
             /\ \A w \in WriteAsKinds : IsPrefix(Held(nwbfile, w), Held(nwbfile', w))
             /\ Len(nwbfile.epochs.rows) <= Len(nwbfile'.epochs.rows)
             /\ \A k \in DOMAIN nwbfile.epochs.rows :
                    nwbfile'.epochs.rows[k].tags = nwbfile.epochs.rows[k].tags
             /\ Has(nwbfile, "session") => nwbfile'.session = nwbfile.session
       /\ (run.pc = "write" /\ Stepped) => disk' = [exists |-> TRUE, nwb |-> nwbfile]]_vars

(* the file of the earlier session was appended to: it holds the old raw   *)
(* series and the session read, and the new LFP series and epoch           *)
AppendedToFile ==
    /\ last.op = "write_recording"
    /\ last.res = "ok"
    /\ last.mode = "r+"
    /\ disk.nwb.session = WrittenFile.nwb.session
    /\ disk.nwb.acquisition = WrittenFile.nwb.acquisition
    /\ Len(Held(disk.nwb, "lfp")) = 1
    /\ Len(disk.nwb.epochs.rows) = 1

(* the metadata the caller passed to write_recording *)
UserMetadata == IF run'.with_metadata THEN metadata ELSE None

UserHas(k) == UserMetadata # None /\ Has(UserMetadata, k)

BuildersInOrder ==
    [][/\ (run'.pc \in Builders /\ Stepped) =>
             IF run'.pc = "add_devices" THEN run.pc \in {"idle", "load"}
             ELSE /\ run.pc \in Builders
                  /\ next_builder(run.pc) = run'.pc
                  /\ BuilderOrder[(CHOOSE i \in DOMAIN BuilderOrder :
                                       BuilderOrder[i] = run'.pc) - 1] = run.pc
                  /\ last'.op = run.pc
                  /\ last'.res = "ok"
       /\ (run.pc \in Builders /\ Stepped) =>
             /\ last'.op = run.pc
             /\ last'.res # "ok" => run'.pc \notin Builders
             /\ (last'.res = "ok" /\ run.pc # "add_epochs") => run'.pc \in Builders]_vars

(* add_epochs completed after the four builders before it *)
AllBuildersRan ==
    /\ run.pc \in {"write", "return"}
    /\ Completed("add_epochs")
    /\ Len(nwbfile.devices) >= 1
    /\ Len(nwbfile.electrode_groups) >= 1
    /\ Len(nwbfile.electrodes.rows) >= 1
    /\ Len(nwbfile.acquisition) >= 1
    /\ Len(nwbfile.epochs.rows) >= 1

(* C20: with a save_path the file is open from the open to the close: the  *)
(* container is loaded and the builders run while it is open, the write    *)
(* happens once, after add_epochs completed, and the call returns with the *)
(* file closed, written once when no builder raised and not written when   *)
(* one raised.                                                             *)
FileScopeClosed ==
    [][/\ (run.pc = "open" /\ Stepped) => run.io = "none" /\ run'.io = "open"
       /\ (run.pc \in Builders \cup {"load", "write"} /\ Stepped /\ run.mode # "none")
             => run.io = "open" /\ run'.io = "open"
       /\ (run.pc = "write" /\ Stepped)
             => /\ Completed("add_epochs")
                /\ run.writes = 0
                /\ run'.writes = 1
                /\ run'.pc = "close"
       /\ (run.pc # "write" /\ run.pc # "idle" /\ run'.pc # "idle") => run'.writes = run.writes
       /\ (run.pc # "idle" /\ run'.pc = "idle" /\ run.mode # "none")
             => /\ run.io = "closed"
                /\ run.writes = IF run.res = "ok" THEN 1 ELSE 0]_vars

(* a builder raised and the call returned with the file closed, unwritten *)
ClosedAfterRaise ==
    /\ last.op = "write_recording"
    /\ last.save_path
    /\ last.res = "AssertionError"
    /\ last.mode = "r+"
    /\ last.io = "closed"
    /\ last.writes = 0
    /\ disk = WrittenFile

----------------------------------------------------------------------------
(* Properties of the electrode table region *)

RowsOf(nwb, id) == {k \in DOMAIN nwb.electrodes.rows : nwb.electrodes.rows[k].id = id}

(* C24: after add_electrodes completes every channel id of the recording   *)
(* is the id of exactly one electrode row; add_all_to_nwbfile then goes on *)
(* to add_electrical_series, which finds the row of every channel, and the *)
(* region of the series it adds has one entry per channel, in channel      *)
(* order, that points to the row whose id is the channel id.               *)
EveryChannelHasOneRow ==
    [][/\ (run.pc = "add_electrodes" /\ last'.res = "ok") =>
              \A j \in DOMAIN recording.channel_ids :
                  Cardinality(RowsOf(nwbfile', recording.channel_ids[j])) = 1
       /\ run.pc = "add_electrodes" => run'.pc = "add_electrical_series"
       /\ run.pc = "add_electrical_series" => last'.res # "ValueError"
       /\ (run.pc = "add_electrical_series" /\ last'.res = "ok") =>
              LET held == Held(nwbfile', run.write_as)
                  region == held[Len(held)].electrodes
              IN /\ DOMAIN region = DOMAIN recording.channel_ids
                 /\ \A j \in DOMAIN region :
                        nwbfile'.electrodes.rows[region[j] + 1].id = recording.channel_ids[j]]_vars

----------------------------------------------------------------------------
(* Properties of set_dynamic_table_property *)

PropertyCalled == last'.op = "set_dynamic_table_property"

(* the ids of the rows of the table before the call, in row order *)
TableIds == [k \in DOMAIN nwbfile.electrodes.rows |-> nwbfile.electrodes.rows[k].id]

(* the call is one that the function rejects *)
PropertyCallInvalid ==
    \/ ~Has(last'.row_ids, "list")
    \/ \E i \in DOMAIN last'.row_ids.list : ~Has(last'.row_ids.list[i], "int")
    \/ \E i \in DOMAIN last'.row_ids.list : last'.row_ids.list[i].int \notin Range(TableIds)
    \/ ~Has(last'.property_name, "str")
    \/ ~last'.index /\ Len(last'.row_ids.list) # Len(last'.values)

(* the positions in row_ids of the id of row k *)
GivenAt(k) == {i \in DOMAIN last'.row_ids.list : last'.row_ids.list[i].int = TableIds[k]}

(* C25: a call that row_ids, property_name or the lengths make invalid     *)
(* raises and leaves the table as it was; any other call completes, keeps  *)
(* the rows and their ids, and changes the cells of one column only: an    *)
(* existing column gets the given values in the rows of row_ids and keeps  *)
(* its other cells, a new column gets the given values in the rows of      *)
(* row_ids and default_value in every other row.                           *)
TablePropertySet ==
    [][PropertyCalled =>
          IF PropertyCallInvalid
          THEN last'.res # "ok" /\ nwbfile' = nwbfile
          ELSE LET name == last'.property_name.str
                   old == nwbfile.electrodes
                   new == nwbfile'.electrodes
               IN /\ last'.res = "ok"
                  /\ nwbfile' = [nwbfile EXCEPT !.electrodes = new]
                  /\ new.colnames = old.colnames \cup {name}
                  /\ DOMAIN new.rows = DOMAIN old.rows
                  /\ \A k \in DOMAIN old.rows :
                         /\ DOMAIN new.rows[k] = DOMAIN old.rows[k] \cup {name}
                         /\ \A c \in DOMAIN old.rows[k] \ {name} :
                                new.rows[k][c] = old.rows[k][c]
                         /\ IF GivenAt(k) # {}
                            THEN \E i \in GivenAt(k) : new.rows[k][name] = last'.values[i]
                            ELSE new.rows[k][name] =
                                     (IF name \in old.colnames THEN old.rows[k][name]
                                      ELSE last'.default_value)]_vars

====
